---- MODULE Spec2Model ----
(***************************************************************************)
(* Model of the 1-Wire device search of one-wire-hal:                      *)
(*   src/src/device_search.rs  DeviceSearch (new, search, Iterator::next), *)
(*                             SearchState                                 *)
(*   src/src/triplet.rs        Triplet::new                                *)
(*   src/src/lib.rs            the OneWire trait (reset, write_byte,       *)
(*                             triplet) that the search drives             *)
(*                             and its provided method send_command        *)
(*                             (match_address, skip_address, write_bytes,  *)
(*                             write_byte)                                 *)
(*                                                                         *)
(* A u64 is kept as the set of the indices of its 1-bits (a subset of      *)
(* 0..63): the search only reads, sets and clears single bits, and the     *)
(* numeric value is compared through the highest differing bit.            *)
(*                                                                         *)
(* One call of next() is cut at the calls of the bus primitives, which are *)
(* the points where the bus answers: Advance runs next() up to the first   *)
(* primitive, Reset, WriteByte and TripletOp each run from one primitive   *)
(* call to the next one or to the return of next().                        *)
(*                                                                         *)
(* Spec is the enumeration (DeviceSearch) on a bus whose devices may       *)
(* leave; CommandSpec is send_command, cut at reset and write_bit.         *)
(***************************************************************************)
EXTENDS Integers, Sequences, FiniteSets

\* ------------------------------------------------------------------ bounds
MaxDevices == 3      \* devices on the bus at one time
MaxBusChanges == 1   \* times devices leave the bus during one enumeration

\* --------------------------------------------------------------- constants
AddressBits == 64        \* for i in 0..64_u8
LastBit == 63            \* 63 - leading_zeros
SEARCH_NORMAL == 240     \* commands::SEARCH_NORMAL (0xF0)
SEARCH_ALARM == 236      \* commands::SEARCH_ALARM  (0xEC)
MATCH_ROM == 85          \* commands::MATCH_ROM     (0x55)
SKIP_ROM == 204          \* commands::SKIP_ROM      (0xCC)
BitsPerByte == 8         \* write_byte: for _ in 0..8

Slots == 0 .. (AddressBits - 1)
MaxReturned == MaxDevices + 3
Errors == {"Bus"}

Max(S) == CHOOSE x \in S : \A y \in S : y <= x
Min(S) == CHOOSE x \in S : \A y \in S : x <= y
SymDiff(A, B) == (A \ B) \cup (B \ A)

\* ------------------------------------------------------------ crc (8 bit)
\* The checksum of the identifier: CRC-8 with the reflected polynomial 0x8C
\* over the little-endian bytes, each byte least significant bit first.
\* The register is a number 0..255.
BitOf(x, b) == (x \div (2 ^ b)) % 2
FlipBit(x, b) == IF BitOf(x, b) = 1 THEN x - 2 ^ b ELSE x + 2 ^ b

\* one shift of the register; after the shift bit 7 is 0, so the exclusive
\* or with 0x8C sets bit 7 and flips bits 3 and 2
Crc8Shift[crc \in 0 .. 255] ==
    IF crc % 2 = 1 THEN FlipBit(FlipBit(crc \div 2, 2), 3) + 2 ^ 7 ELSE crc \div 2

\* the register after eight shifts, for every value of the register
Crc8Table ==
    [x \in 0 .. 255 |->
        Crc8Shift[Crc8Shift[Crc8Shift[Crc8Shift[
        Crc8Shift[Crc8Shift[Crc8Shift[Crc8Shift[x]]]]]]]]]

Xor8(a, b) ==
      (IF BitOf(a, 0) # BitOf(b, 0) THEN 1 ELSE 0)
    + (IF BitOf(a, 1) # BitOf(b, 1) THEN 2 ELSE 0)
    + (IF BitOf(a, 2) # BitOf(b, 2) THEN 4 ELSE 0)
    + (IF BitOf(a, 3) # BitOf(b, 3) THEN 8 ELSE 0)
    + (IF BitOf(a, 4) # BitOf(b, 4) THEN 16 ELSE 0)
    + (IF BitOf(a, 5) # BitOf(b, 5) THEN 32 ELSE 0)
    + (IF BitOf(a, 6) # BitOf(b, 6) THEN 64 ELSE 0)
    + (IF BitOf(a, 7) # BitOf(b, 7) THEN 128 ELSE 0)

\* byte n of the little-endian bytes of data (data: the set of the 1-bits)
ByteOf(data, n) ==
      (IF 8 * n \in data THEN 1 ELSE 0)
    + (IF 8 * n + 1 \in data THEN 2 ELSE 0)
    + (IF 8 * n + 2 \in data THEN 4 ELSE 0)
    + (IF 8 * n + 3 \in data THEN 8 ELSE 0)
    + (IF 8 * n + 4 \in data THEN 16 ELSE 0)
    + (IF 8 * n + 5 \in data THEN 32 ELSE 0)
    + (IF 8 * n + 6 \in data THEN 64 ELSE 0)
    + (IF 8 * n + 7 \in data THEN 128 ELSE 0)

\* the register crc after one more byte
Crc8Step[crc \in 0 .. 255] == [byte \in 0 .. 255 |-> Crc8Table[Xor8(crc, byte)]]

\* the register after byte n of data
Crc8Byte(crc, data, n) == Crc8Step[crc][ByteOf(data, n)]

\* the CRC of the first seven bytes of data
Crc8Head(data) ==
    LET b0 == Crc8Byte(0, data, 0)
        b1 == Crc8Byte(b0, data, 1)
        b2 == Crc8Byte(b1, data, 2)
        b3 == Crc8Byte(b2, data, 3)
        b4 == Crc8Byte(b3, data, 4)
        b5 == Crc8Byte(b4, data, 5)
    IN Crc8Byte(b5, data, 6)

\* the CRC of all eight bytes of data
Crc8(data) == Crc8Byte(Crc8Head(data), data, 7)

\* crc::check_crc8(&address.to_le_bytes()): the CRC of all 8 bytes is 0, that
\* is, the last byte is the CRC of the first seven.
check_crc8(address) == Crc8(address) = 0

\* ----------------------------------------------------------- the devices
\* The identifiers the simulated bus draws its devices from: family code
\* 0x28 or 0x29, a serial number 0 or 1, and the checksum byte computed over
\* the first seven bytes. The identifiers part at bit 0 and each half parts
\* again at bit 8, so that a pass meets discrepancies below, at and above
\* the one it is sent to.
ByteBits(x) == {j \in 0 .. 7 : BitOf(x, j) = 1}
WithChecksum(body) == body \cup {56 + j : j \in ByteBits(Crc8Head(body))}
Bodies == {{3, 5}, {0, 3, 5}, {3, 5, 8}, {0, 3, 5, 8}}
ValidIds == {WithChecksum(b) : b \in Bodies}
\* identifiers whose checksum byte is wrong: a valid one with one bit flipped
CorruptIds == {SymDiff(WithChecksum({3, 5}), {1})}
Universe == ValidIds \cup CorruptIds

\* numeric order of two u64: decided at the highest differing bit
NumLess(a, b) == a # b /\ Max(SymDiff(a, b)) \in b
\* order of the search tree: decided at the lowest differing bit
WireLess(a, b) == a # b /\ Min(SymDiff(a, b)) \in b

\* ------------------------------------------------------------ SearchState
get_bit(data, index) == index \in data

set_bit(data, index, value) ==
    IF value THEN data \cup {index} ELSE data \ {index}

initial == [address |-> {}, discrepancies |-> {}]

addr_bit(st, index) == get_bit(st.address, index)

set_addr_bit(st, index, bit) ==
    [st EXCEPT !.address = set_bit(st.address, index, bit)]

set_discrepancy(st, index) ==
    [st EXCEPT !.discrepancies = set_bit(st.discrepancies, index, TRUE)]

unset_discrepancy(st, index) ==
    [st EXCEPT !.discrepancies = set_bit(st.discrepancies, index, FALSE)]

\* mutant: the lowest marked position instead of the highest
last_discrepancy_index_lowest(st) ==
    IF st.discrepancies = {} THEN 0 ELSE Min(st.discrepancies)

last_discrepancy_index(st) ==
    IF st.discrepancies = {} THEN 0
    ELSE LastBit - (LastBit - Max(st.discrepancies))

\* ---------------------------------------------------------------- Triplet
Discrepancy(b) == [tag |-> "Discrepancy", bit |-> b]
AllMatch(b) == [tag |-> "AllMatch", bit |-> b]
NoDevicesFound == [tag |-> "NoDevicesFound", bit |-> FALSE]

\* mutant: a discrepancy does not carry the direction bit
TripletNewNoDirection(bit, complement_bit, direction_bit) ==
    IF ~bit /\ complement_bit THEN AllMatch(FALSE)
    ELSE IF bit /\ ~complement_bit THEN AllMatch(TRUE)
    ELSE IF ~bit /\ ~complement_bit THEN Discrepancy(FALSE)
    ELSE NoDevicesFound

TripletNew(bit, complement_bit, direction_bit) ==
    IF ~bit /\ complement_bit THEN AllMatch(FALSE)
    ELSE IF bit /\ ~complement_bit THEN AllMatch(TRUE)
    ELSE IF ~bit /\ ~complement_bit THEN Discrepancy(direction_bit)
    ELSE NoDevicesFound

\* ------------------------------------------------------------------ state
VARIABLES
    devices,        \* the bus: identifiers of the devices answering the search
    changes,        \* the bus: how often its device set has changed
    participating,  \* the bus: devices still matching the bits of this pass
    only_alarming,  \* the argument DeviceSearch::new was called with
    state,          \* DeviceSearch.state: Option<SearchState>
    finished,       \* DeviceSearch.finished
    search_command, \* DeviceSearch.search_command
    pc,             \* where next() stands: idle, reset, write, triplet, panicked
    first_time,     \* search(): let first_time
    search_state,   \* search(): let mut search_state
    i,              \* search(): the loop variable
    ops,            \* the bus primitives called by the current call of next()
    returned,       \* what the calls of next() returned, in order
    call            \* the frame of a call of send_command

vars == <<devices, changes, participating, only_alarming, state, finished,
          search_command, pc, first_time, search_state, i, ops, returned,
          call>>

bus == <<devices, changes>>
object == <<only_alarming, state, finished, search_command>>
locals == <<first_time, search_state, i>>

NoneState == [some |-> FALSE, st |-> initial]
SomeState(st) == [some |-> TRUE, st |-> st]

ItemOk(address) == [kind |-> "Ok", address |-> address, err |-> ""]
ItemErr(e) == [kind |-> "Err", address |-> {}, err |-> e]
ItemNone == [kind |-> "None", address |-> {}, err |-> ""]

\* a primitive called on the bus: its name, its argument (the byte written,
\* the slot of the triplet), the direction bit, its result, its error
Op(name, arg, dir, res, err) ==
    [op |-> name, arg |-> arg, dir |-> dir, res |-> res, bit |-> FALSE,
     err |-> err]

\* a triplet that answered: the slot, the direction bit, the Triplet returned
TripletOp(index, dir_bit, triplet) ==
    [Op("triplet", index, dir_bit, triplet.tag, "") EXCEPT !.bit = triplet.bit]

\* the record of what next() returned keeps the first MaxReturned items
Record(item) ==
    IF Len(returned) < MaxReturned THEN Append(returned, item) ELSE returned

\* no call of send_command is open
NoCall ==
    [at |-> "none", command |-> 0, some |-> FALSE, address |-> {},
     index |-> 0, value |-> 0, count |-> 0, result |-> ""]

\* mutant: the two command codes swapped
NewSwapped(alarming) ==
    /\ only_alarming = alarming
    /\ state = NoneState
    /\ finished = FALSE
    /\ search_command = IF alarming THEN SEARCH_NORMAL ELSE SEARCH_ALARM

\* DeviceSearch::new
New(alarming) ==
    /\ only_alarming = alarming
    /\ state = NoneState
    /\ finished = FALSE
    /\ search_command = IF alarming THEN SEARCH_ALARM ELSE SEARCH_NORMAL

Init ==
    /\ devices \in {D \in SUBSET Universe : Cardinality(D) <= MaxDevices}
    /\ changes = 0
    /\ participating = {}
    /\ \E alarming \in BOOLEAN : New(alarming)
    /\ pc = "idle"
    /\ first_time = FALSE
    /\ search_state = initial
    /\ i = 0
    /\ ops = <<>>
    /\ returned = <<>>
    /\ call = NoCall

\* ------------------------------------------------- next(): the match arms
\* search() has returned: its locals are gone
EndSearch ==
    /\ first_time' = FALSE
    /\ search_state' = initial
    /\ i' = 0

\* Ok(Some((address, search_state)))
ReturnSome(address, st) ==
    /\ state' = SomeState(st)
    /\ returned' = Record(ItemOk(address))
    /\ pc' = "idle"
    /\ EndSearch
    /\ UNCHANGED <<finished, only_alarming, search_command>>

\* mutant: the end of the search keeps the stored state
ReturnNoneKeepsState ==
    /\ finished' = TRUE
    /\ returned' = Record(ItemNone)
    /\ pc' = "idle"
    /\ EndSearch
    /\ UNCHANGED <<state, only_alarming, search_command>>

\* Ok(None)
ReturnNone ==
    /\ state' = NoneState
    /\ finished' = TRUE
    /\ returned' = Record(ItemNone)
    /\ pc' = "idle"
    /\ EndSearch
    /\ UNCHANGED <<only_alarming, search_command>>

\* mutant: an error does not end the sequence
ReturnErrNotFinished(e) ==
    /\ state' = NoneState
    /\ returned' = Record(ItemErr(e))
    /\ pc' = "idle"
    /\ EndSearch
    /\ UNCHANGED <<finished, only_alarming, search_command>>

\* Err(err)
ReturnErr(e) ==
    /\ state' = NoneState
    /\ finished' = TRUE
    /\ returned' = Record(ItemErr(e))
    /\ pc' = "idle"
    /\ EndSearch
    /\ UNCHANGED <<only_alarming, search_command>>

\* search() goes on to its next bus primitive at position p
Continue(p) ==
    /\ pc' = p
    /\ UNCHANGED <<object, returned>>

\* mutant: the branch at the last discrepancy is not forced to 1
DirBitNotForced(ft, st, index) ==
    IF ft THEN FALSE
    ELSE IF index < last_discrepancy_index(st) THEN addr_bit(st, index)
    ELSE FALSE

\* ---------------------------------------------------------------- search
\* mutant: unknown branches are entered at 1
DirBitOneFirst(ft, st, index) ==
    IF ft THEN TRUE
    ELSE IF index < last_discrepancy_index(st) THEN addr_bit(st, index)
    ELSE TRUE

\* the direction bit of slot index
DirBit(ft, st, index) ==
    IF ft THEN FALSE
    ELSE IF index < last_discrepancy_index(st) THEN addr_bit(st, index)
    ELSE IF index = last_discrepancy_index(st) THEN TRUE
    ELSE FALSE

\* mutant: the mark at the last discrepancy is not cleared
FoldNoUnset(ft, st, index, triplet) ==
    IF triplet.tag = "Discrepancy" THEN
        LET marked ==
                IF ft \/ index > last_discrepancy_index(st)
                THEN set_discrepancy(st, index)
                ELSE st
        IN set_addr_bit(marked, index, triplet.bit)
    ELSE IF triplet.tag = "AllMatch" THEN set_addr_bit(st, index, triplet.bit)
    ELSE st

\* mutant: a discrepancy at or below the last discrepancy clears the mark of
\* the last discrepancy, not the mark of its own slot
FoldClearsLast(ft, st, index, triplet) ==
    IF triplet.tag = "Discrepancy" THEN
        LET marked ==
                IF ft \/ index > last_discrepancy_index(st)
                THEN set_discrepancy(st, index)
                ELSE unset_discrepancy(st, last_discrepancy_index(st))
        IN set_addr_bit(marked, index, triplet.bit)
    ELSE IF triplet.tag = "AllMatch" THEN set_addr_bit(st, index, triplet.bit)
    ELSE st

\* mutant: a discrepancy below the last discrepancy is marked again
FoldMarksBelow(ft, st, index, triplet) ==
    IF triplet.tag = "Discrepancy" THEN
        LET marked ==
                IF ft \/ index # last_discrepancy_index(st)
                THEN set_discrepancy(st, index)
                ELSE unset_discrepancy(st, index)
        IN set_addr_bit(marked, index, triplet.bit)
    ELSE IF triplet.tag = "AllMatch" THEN set_addr_bit(st, index, triplet.bit)
    ELSE st

\* the update of the search state with the triplet of slot index
Fold(ft, st, index, triplet) ==
    IF triplet.tag = "Discrepancy" THEN
        LET marked ==
                IF ft \/ index > last_discrepancy_index(st)
                THEN set_discrepancy(st, index)
                ELSE IF ~ft /\ index = last_discrepancy_index(st)
                THEN unset_discrepancy(st, index)
                ELSE st
        IN set_addr_bit(marked, index, triplet.bit)
    ELSE IF triplet.tag = "AllMatch" THEN set_addr_bit(st, index, triplet.bit)
    ELSE st

\* mutant: an empty bitmap does not stop the search
ExhaustedNever(ft, st) == FALSE

\* mutant: a last discrepancy index of 0 is read as nothing marked
ExhaustedAtIndexZero(ft, st) == last_discrepancy_index(st) = 0 /\ ~ft

\* search() stops before the bus is touched: no discrepancies left
Exhausted(ft, st) == st.discrepancies = {} /\ ~ft

\* mutant: next() does not look at the finished flag
AdvanceNoFinishedCheck ==
    /\ pc = "idle"
    /\ ops' = <<>>
    /\ LET ft == ~state.some
           st == IF state.some THEN state.st ELSE initial
       IN IF Exhausted(ft, st)
          THEN ReturnNone
          ELSE /\ first_time' = ft
               /\ search_state' = st
               /\ i' = 0
               /\ Continue("reset")
    /\ UNCHANGED <<bus, participating, call>>

\* mutant: the pass starts from the locals the last pass left behind, not
\* from the stored state
AdvanceStaleLocals ==
    /\ pc = "idle"
    /\ ops' = <<>>
    /\ IF finished
       THEN /\ returned' = Record(ItemNone)
            /\ UNCHANGED <<object, pc, locals>>
       ELSE LET ft == ~state.some
                st == search_state
            IN IF Exhausted(ft, st)
               THEN ReturnNone
               ELSE /\ first_time' = ft
                    /\ search_state' = st
                    /\ i' = 0
                    /\ Continue("reset")
    /\ UNCHANGED <<bus, participating, call>>

\* next() up to the first bus primitive of search()
Advance ==
    /\ pc = "idle"
    /\ ops' = <<>>
    /\ IF finished
       THEN /\ returned' = Record(ItemNone)
            /\ UNCHANGED <<object, pc, locals>>
       ELSE LET ft == ~state.some
                st == IF state.some THEN state.st ELSE initial
            IN IF Exhausted(ft, st)
               THEN ReturnNone
               ELSE /\ first_time' = ft
                    /\ search_state' = st
                    /\ i' = 0
                    /\ Continue("reset")
    /\ UNCHANGED <<bus, participating, call>>

\* the bus: the presence pulse after a reset
BusPresence(devs) == devs # {}

\* mutant: the presence pulse is not looked at
ResetIgnoresPresence ==
    /\ pc = "reset"
    /\ ops' = Append(ops, Op("reset", 0, FALSE,
                 IF BusPresence(devices) THEN "presence" ELSE "no_presence", ""))
    /\ participating' = devices
    /\ Continue("write")
    /\ UNCHANGED <<bus, locals, call>>

\* one_wire.reset(delay)? answers
ResetOk ==
    /\ pc = "reset"
    /\ ops' = Append(ops, Op("reset", 0, FALSE,
                 IF BusPresence(devices) THEN "presence" ELSE "no_presence", ""))
    /\ participating' = devices
    /\ IF ~BusPresence(devices)
       THEN ReturnNone
       ELSE Continue("write") /\ UNCHANGED locals
    /\ UNCHANGED <<bus, call>>

\* one_wire.reset(delay)? fails
ResetErr ==
    /\ pc = "reset"
    /\ \E e \in Errors :
          /\ ops' = Append(ops, Op("reset", 0, FALSE, "", e))
          /\ ReturnErr(e)
    /\ UNCHANGED <<bus, participating, call>>

\* one_wire.write_byte(command, delay)? answers
WriteByteOk ==
    /\ pc = "write"
    /\ ops' = Append(ops, Op("write_byte", search_command, FALSE, "", ""))
    /\ Continue("triplet")
    /\ UNCHANGED <<bus, participating, locals, call>>

\* one_wire.write_byte(command, delay)? fails
WriteByteErr ==
    /\ pc = "write"
    /\ \E e \in Errors :
          /\ ops' = Append(ops, Op("write_byte", search_command, FALSE, "", e))
          /\ ReturnErr(e)
    /\ UNCHANGED <<bus, participating, call>>

\* the bus: what the devices still in the pass answer in slot index (the
\* line is low when any device pulls it low), and the bit the master then
\* writes (lib.rs, the table of triplet)
BusBit(part, index) == \A d \in part : index \in d
BusComplement(part, index) == \A d \in part : index \notin d
BusWritten(part, index, dir_bit) ==
    IF BusBit(part, index) # BusComplement(part, index)
    THEN BusBit(part, index)
    ELSE IF ~BusBit(part, index) THEN dir_bit ELSE TRUE
BusTriplet(part, index, dir_bit) ==
    TripletNew(BusBit(part, index), BusComplement(part, index), dir_bit)

\* the end of search() after the last slot: the checksum and the result;
\* check_crc8(..).unwrap() panics on a mismatch
Finish(st) ==
    IF check_crc8(st.address)
    THEN ReturnSome(st.address, st)
    ELSE /\ pc' = "panicked"
         /\ search_state' = st
         /\ UNCHANGED <<object, returned, first_time, i>>

\* mutant: a slot that finds no device does not stop the pass
TripletStepNoAbort(part) ==
    LET dir_bit == DirBit(first_time, search_state, i)
        triplet == BusTriplet(part, i, dir_bit)
        st == Fold(first_time, search_state, i, triplet)
    IN /\ ops' = Append(ops, TripletOp(i, dir_bit, triplet))
       /\ participating' = {d \in part : (i \in d) = BusWritten(part, i, dir_bit)}
       /\ IF i + 1 < AddressBits
          THEN /\ i' = i + 1
               /\ search_state' = st
               /\ Continue("triplet")
               /\ UNCHANGED first_time
          ELSE Finish(st)

\* one slot of the loop: one_wire.triplet(dir_bit, delay)? answers for the
\* devices part, and the match on the triplet
TripletStep(part) ==
    LET dir_bit == DirBit(first_time, search_state, i)
        triplet == BusTriplet(part, i, dir_bit)
        st == Fold(first_time, search_state, i, triplet)
    IN /\ ops' = Append(ops, TripletOp(i, dir_bit, triplet))
       /\ participating' = {d \in part : (i \in d) = BusWritten(part, i, dir_bit)}
       /\ IF triplet.tag = "NoDevicesFound"
          THEN ReturnNone
          ELSE IF i + 1 < AddressBits
          THEN /\ i' = i + 1
               /\ search_state' = st
               /\ Continue("triplet")
               /\ UNCHANGED first_time
          ELSE Finish(st)

TripletOk ==
    /\ pc = "triplet"
    /\ TripletStep(participating)
    /\ UNCHANGED <<bus, call>>

\* one_wire.triplet(dir_bit, delay)? fails
TripletErr ==
    /\ pc = "triplet"
    /\ \E e \in Errors :
          /\ ops' = Append(ops, Op("triplet", i,
                       DirBit(first_time, search_state, i), "", e))
          /\ ReturnErr(e)
    /\ UNCHANGED <<bus, participating, call>>

\* the bus: every device leaves in the middle of a pass, the slot finds none
TripletVanished ==
    /\ pc = "triplet"
    /\ changes < MaxBusChanges
    /\ devices # {}
    /\ devices' = {}
    /\ changes' = changes + 1
    /\ TripletStep({})
    /\ UNCHANGED call

\* the bus: between two calls of next() some of the devices leave
BusChange ==
    /\ pc = "idle"
    /\ ~finished
    /\ changes < MaxBusChanges
    /\ \E D \in SUBSET devices : D # devices /\ devices' = D
    /\ changes' = changes + 1
    /\ UNCHANGED <<participating, object, pc, locals, ops, returned, call>>

\* the steps of the program and the steps of the bus
Program ==
    \/ Advance
    \/ ResetOk
    \/ WriteByteOk
    \/ TripletOk

Failure ==
    \/ ResetErr
    \/ WriteByteErr
    \/ TripletErr

Environment ==
    \/ TripletVanished
    \/ BusChange

Next == Program \/ Failure \/ Environment

Spec == Init /\ [][Next]_vars

\* no primitive fails, and the caller keeps advancing
NextNoFailure == Program \/ Environment

LiveSpec == Init /\ [][NextNoFailure]_vars /\ WF_vars(Program)

\* ----------------------------------------------------------- send_command
\* One call of send_command is cut at the calls of reset and write_bit. The
\* frame call holds the arguments (command, address: some and the
\* identifier), the place of the call (at: reset, or the write_byte running:
\* match, address, skip, command), the index of write_bytes, the value and the
\* loop count of write_byte, and the result returned.
Commands == {68, 190}
AddressArgs ==
    {[some |-> FALSE, address |-> {}]}
        \cup {[some |-> TRUE, address |-> a] : a \in Universe}

\* the bytes of address.0.to_le_bytes()
AddressBytes == AddressBits \div BitsPerByte

\* write_byte(value) is entered at place at
EnterWriteByte(c, at, value) ==
    [c EXCEPT !.at = at, !.value = value, !.count = 0]

\* a write_byte has written its eight bits: what send_command does next
AfterWriteByte(c) ==
    IF c.at = "match"
    THEN [EnterWriteByte(c, "address", ByteOf(c.address, 0)) EXCEPT !.index = 0]
    ELSE IF c.at = "address" THEN
        IF c.index + 1 < AddressBytes
        THEN [EnterWriteByte(c, "address", ByteOf(c.address, c.index + 1))
                 EXCEPT !.index = c.index + 1]
        ELSE EnterWriteByte(c, "command", c.command)
    ELSE IF c.at = "skip" THEN EnterWriteByte(c, "command", c.command)
    ELSE [c EXCEPT !.at = "returned", !.result = "Ok"]

\* send_command(command, address, delay) up to its reset
SendCommand ==
    /\ call.at \in {"none", "returned"}
    /\ \E command \in Commands, a \in AddressArgs :
          call' = [NoCall EXCEPT !.at = "reset", !.command = command,
                                 !.some = a.some, !.address = a.address]
    /\ ops' = <<>>
    /\ UNCHANGED <<bus, participating, object, pc, locals, returned>>

\* mutant: without a presence pulse nothing is sent
CommandResetNeedsPresence ==
    /\ call.at = "reset"
    /\ ops' = Append(ops, Op("reset", 0, FALSE,
                 IF BusPresence(devices) THEN "presence" ELSE "no_presence", ""))
    /\ call' = IF ~BusPresence(devices)
               THEN [call EXCEPT !.at = "returned", !.result = "Ok"]
               ELSE IF call.some
               THEN EnterWriteByte(call, "match", MATCH_ROM)
               ELSE EnterWriteByte(call, "skip", SKIP_ROM)
    /\ UNCHANGED <<bus, participating, object, pc, locals, returned>>

\* self.reset(delay)? answers: match_address or skip_address is entered
CommandResetOk ==
    /\ call.at = "reset"
    /\ ops' = Append(ops, Op("reset", 0, FALSE,
                 IF BusPresence(devices) THEN "presence" ELSE "no_presence", ""))
    /\ call' = IF call.some
               THEN EnterWriteByte(call, "match", MATCH_ROM)
               ELSE EnterWriteByte(call, "skip", SKIP_ROM)
    /\ UNCHANGED <<bus, participating, object, pc, locals, returned>>

\* self.reset(delay)? fails
CommandResetErr ==
    /\ call.at = "reset"
    /\ \E e \in Errors :
          /\ ops' = Append(ops, Op("reset", 0, FALSE, "", e))
          /\ call' = [call EXCEPT !.at = "returned", !.result = e]
    /\ UNCHANGED <<bus, participating, object, pc, locals, returned>>

\* write_byte: self.write_bit(value & 0x01 == 0x01, delay)? answers, and
\* value >>= 1
WriteBitOk ==
    /\ call.at \in {"match", "address", "skip", "command"}
    /\ ops' = Append(ops, Op("write_bit", call.value % 2, FALSE, "", ""))
    /\ LET c == [call EXCEPT !.value = call.value \div 2,
                             !.count = call.count + 1]
       IN call' = IF c.count < BitsPerByte THEN c ELSE AfterWriteByte(c)
    /\ UNCHANGED <<bus, participating, object, pc, locals, returned>>

\* write_byte: self.write_bit(..)? fails
WriteBitErr ==
    /\ call.at \in {"match", "address", "skip", "command"}
    /\ \E e \in Errors :
          /\ ops' = Append(ops, Op("write_bit", call.value % 2, FALSE, "", e))
          /\ call' = [call EXCEPT !.at = "returned", !.result = e]
    /\ UNCHANGED <<bus, participating, object, pc, locals, returned>>

CommandNext ==
    \/ SendCommand
    \/ CommandResetOk
    \/ CommandResetErr
    \/ WriteBitOk
    \/ WriteBitErr

\* calls of send_command on a bus with its devices
CommandSpec == Init /\ [][CommandNext]_vars

\* ================================================================ claims
Last(seq) == seq[Len(seq)]
\* the record of the returns has not reached its cap: its last item is the
\* item returned last
Unsaturated == Len(returned) < MaxReturned
NoErrorReturned == \A k \in 1 .. Len(returned) : returned[k].kind # "Err"
FixedBus == changes = 0
Failed(k) == ops[k].err # ""

\* C1: on a fixed, non-empty bus of devices with valid checksums, with no
\* primitive failing, a full enumeration returns the identifiers of the
\* devices, each once and nothing else, on its first |S| advances, and the
\* end of the sequence on advance |S| + 1 (and not before).
C1_ExactlyTheDevices ==
    (FixedBus /\ devices # {} /\ devices \subseteq ValidIds
        /\ ~only_alarming /\ NoErrorReturned) =>
    LET n == Cardinality(devices)
        m == Len(returned)
    IN /\ pc # "panicked"
       /\ \A k \in 1 .. m :
             IF k <= n
             THEN returned[k].kind = "Ok" /\ returned[k].address \in devices
             ELSE returned[k] = ItemNone
       /\ \A j, k \in 1 .. m :
             j < k /\ k <= n => returned[j].address # returned[k].address
       /\ finished <=> m > n

C1_Witness ==
    /\ FixedBus /\ ~only_alarming /\ NoErrorReturned
    /\ devices \subseteq ValidIds
    /\ Cardinality(devices) = 3
    /\ finished
    /\ Len(returned) = 4
    /\ {returned[k].address : k \in 1 .. 3} = devices
    /\ returned[4] = ItemNone

\* C2 as claimed: on a fixed bus every identifier returned is numerically
\* greater (bit index k has weight 2^k) than the one returned before it.
C2_AscendingNumeric ==
    FixedBus =>
    \A k \in 1 .. Len(returned) - 1 :
        returned[k].kind = "Ok" /\ returned[k + 1].kind = "Ok" =>
            NumLess(returned[k].address, returned[k + 1].address)

\* C2 amended: on a fixed bus every identifier returned comes after the one
\* returned before it in the order of the search tree: at the lowest bit
\* index where the two differ, the earlier one has 0 and the later one 1.
C2_AscendingWireOrder ==
    FixedBus =>
    \A k \in 1 .. Len(returned) - 1 :
        returned[k].kind = "Ok" /\ returned[k + 1].kind = "Ok" =>
            WireLess(returned[k].address, returned[k + 1].address)

\* two identifiers returned in the order of the tree against the numbers
C2_Witness ==
    /\ FixedBus
    /\ Len(returned) >= 2
    /\ returned[1].kind = "Ok" /\ returned[2].kind = "Ok"
    /\ WireLess(returned[1].address, returned[2].address)
    /\ NumLess(returned[2].address, returned[1].address)

\* C3: a pass that completes its 64 slots with an identifier that fails the
\* checksum returns an error item; it never aborts the caller (next() never
\* stops in a panic).
C3_ChecksumFailureReturned == pc # "panicked"

\* C4: an advance that returns an error or the end of the sequence sets the
\* sequence exhausted, and once it is exhausted every advance returns the
\* end of the sequence and calls no bus primitive.
C4_ExhaustedForGood ==
    [][ /\ (Len(returned') > Len(returned) /\ Last(returned').kind # "Ok"
               => finished')
        /\ (finished =>
               /\ finished' /\ pc' = "idle" /\ ops' = <<>>
               /\ state' = NoneState
               /\ returned' = Record(ItemNone)) ]_vars

\* an advance made after the sequence ended with an error
C4_Witness ==
    /\ finished /\ pc = "idle" /\ ops = <<>>
    /\ Len(returned) >= 3
    /\ returned[1].kind = "Ok"
    /\ returned[2].kind = "Err"
    /\ returned[3] = ItemNone

\* C5: when a bus primitive fails it is the last primitive of its pass, the
\* advance returns that error and no identifier, the sequence is exhausted,
\* and nothing but the end of the sequence is returned after an error.
C5_FailureEndsSequence ==
    /\ \A k \in 1 .. Len(ops) :
          Failed(k) =>
             /\ k = Len(ops)
             /\ pc = "idle" /\ finished /\ state = NoneState
             /\ (Unsaturated => Last(returned) = ItemErr(ops[k].err))
    /\ \A j, k \in 1 .. Len(returned) :
          j < k /\ returned[j].kind = "Err" => returned[k] = ItemNone

\* a triplet in the middle of a later pass has failed
C5_Witness ==
    /\ Len(ops) > 10 /\ Failed(Len(ops)) /\ Last(ops).op = "triplet"
    /\ Len(returned) = 2
    /\ returned[1].kind = "Ok"
    /\ returned[2].kind = "Err"

\* C6: when the reset of a pass reports no presence pulse, it is the only
\* primitive of that pass (no command byte, no triplet), the advance returns
\* the end of the sequence, not an error and not an identifier, and the
\* sequence is exhausted; an empty bus returns no identifier at all.
C6_NoPresenceEndsQuietly ==
    /\ (Len(ops) >= 1 /\ ops[1].res = "no_presence") =>
          /\ Len(ops) = 1
          /\ pc = "idle" /\ finished /\ state = NoneState
          /\ (Unsaturated => Last(returned) = ItemNone)
    /\ (FixedBus /\ devices = {}) =>
          /\ pc \in {"idle", "reset"}
          /\ \A k \in 1 .. Len(returned) : returned[k].kind # "Ok"

\* no presence pulse at the start of the second pass
C6_Witness ==
    /\ Len(ops) = 1 /\ ops[1].res = "no_presence"
    /\ Len(returned) = 2
    /\ returned[1].kind = "Ok"
    /\ returned[2] = ItemNone

\* C7: an advance that finds the state of the previous pass with an empty
\* discrepancy bitmap returns the end of the sequence without an error and
\* without calling a bus primitive; a fixed bus with one device (of a valid
\* checksum, no primitive failing) returns its identifier on the first
\* advance and the end of the sequence on the second.
C7_EmptyBitmapEnds ==
    /\ [](\A d \in devices :
            (FixedBus /\ devices = {d} /\ d \in ValidIds /\ NoErrorReturned) =>
               /\ pc # "panicked"
               /\ Len(returned) >= 1 => returned[1] = ItemOk(d)
               /\ \A k \in 2 .. Len(returned) : returned[k] = ItemNone)
    /\ [][ (pc = "idle" /\ ~finished /\ state.some
               /\ state.st.discrepancies = {} /\ devices' = devices) =>
              /\ finished' /\ pc' = "idle" /\ ops' = <<>>
              /\ state' = NoneState
              /\ returned' = Record(ItemNone) ]_vars

C7_Witness ==
    /\ FixedBus /\ Cardinality(devices) = 1
    /\ finished /\ ops = <<>>
    /\ Len(returned) = 2
    /\ returned[1].kind = "Ok"
    /\ returned[2] = ItemNone

\* the scenario of C8 for the devices a (bit k = 0) and b (bit k = 1)
C8_Scenario(k, a, b) ==
    /\ pc # "panicked"
    /\ Len(returned) >= 1 => returned[1] = ItemOk(a)
    /\ Len(returned) = 1 =>
          state = SomeState([address |-> a, discrepancies |-> {k}])
    /\ Len(returned) >= 2 => returned[2] = ItemOk(b)
    /\ Len(returned) = 2 =>
          state = SomeState([address |-> b, discrepancies |-> {}])
    /\ \A j \in 3 .. Len(returned) : returned[j] = ItemNone

C9_Terminates == [](devices \subseteq ValidIds) => <>finished

\* C10: a pass that returns an identifier has called exactly one reset, then
\* one write of the command byte, then the 64 triplets of the slots 0 .. 63
\* in increasing order; the command byte is the alarm search code when the
\* search was built with only_alarming and the normal search code otherwise,
\* on every pass.
C10_PassPrimitives ==
    /\ search_command = IF only_alarming THEN SEARCH_ALARM ELSE SEARCH_NORMAL
    /\ SEARCH_ALARM # SEARCH_NORMAL
    /\ (pc = "idle" /\ Unsaturated /\ returned # <<>>
           /\ Last(returned).kind = "Ok") =>
          /\ Len(ops) = AddressBits + 2
          /\ \A k \in 1 .. Len(ops) : ~Failed(k)
          /\ ops[1].op = "reset"
          /\ ops[2].op = "write_byte" /\ ops[2].arg = search_command
          /\ \A k \in Slots : ops[k + 3].op = "triplet" /\ ops[k + 3].arg = k

\* the second pass of an alarm search has returned an identifier
C10_Witness ==
    /\ pc = "idle" /\ only_alarming
    /\ Len(returned) = 2
    /\ returned[1].kind = "Ok" /\ returned[2].kind = "Ok"
    /\ Len(ops) = AddressBits + 2
    /\ ops[2].arg = SEARCH_ALARM

\* what a step of next() leaves behind when search() returns
Returns(item, stored, done) ==
    /\ pc' = "idle"
    /\ returned' = Record(item)
    /\ state' = stored
    /\ finished' = done
    /\ first_time' = FALSE /\ search_state' = initial /\ i' = 0

\* what a step of next() leaves behind when search() goes on to primitive p
GoesOn(p, ft, st, index) ==
    /\ pc' = p
    /\ first_time' = ft /\ search_state' = st /\ i' = index
    /\ UNCHANGED <<state, finished, returned>>

\* the step of a pass from one bus primitive to the next as a function of the
\* previous Search State (state), the command byte, the locals that the
\* earlier responses of this pass produced, and the response r of the bus
PassStep(r) ==
    IF r.err # "" THEN Returns(ItemErr(r.err), NoneState, TRUE)
    ELSE IF pc = "reset" THEN
        IF r.res = "no_presence"
        THEN Returns(ItemNone, NoneState, TRUE)
        ELSE GoesOn("write", first_time, search_state, i)
    ELSE IF pc = "write" THEN GoesOn("triplet", first_time, search_state, i)
    ELSE IF r.res = "NoDevicesFound" THEN Returns(ItemNone, NoneState, TRUE)
    ELSE LET st == Fold(first_time, search_state, i,
                        [tag |-> r.res, bit |-> r.bit])
         IN IF i < LastBit THEN GoesOn("triplet", first_time, st, i + 1)
            ELSE IF check_crc8(st.address)
            THEN Returns(ItemOk(st.address), SomeState(st), finished)
            ELSE /\ pc' = "panicked" /\ search_state' = st
                 /\ UNCHANGED <<state, finished, returned, first_time, i>>

\* the primitive a pass calls next, with its argument and direction bit, as a
\* function of the same inputs
PassCall(r) ==
    IF pc = "reset" THEN r.op = "reset"
    ELSE IF pc = "write" THEN r.op = "write_byte" /\ r.arg = search_command
    ELSE /\ r.op = "triplet" /\ r.arg = i
         /\ r.dir = DirBit(first_time, search_state, i)

Triplets ==
    {AllMatch(FALSE), AllMatch(TRUE), Discrepancy(FALSE), Discrepancy(TRUE),
     NoDevicesFound}

\* C12: Triplet::new gives a Triplet for every (bit, complement_bit,
\* direction_bit): AllMatch(false) for (0,1), AllMatch(true) for (1,0),
\* Discrepancy(direction_bit) for (0,0), NoDevicesFound for (1,1); the
\* direction bit changes the result only for (0,0). Every triplet a pass got
\* from the bus is the value of Triplet::new for the direction bit it drove.
C12_TripletTable ==
    /\ \A dir \in BOOLEAN :
          /\ TripletNew(FALSE, TRUE, dir) = AllMatch(FALSE)
          /\ TripletNew(TRUE, FALSE, dir) = AllMatch(TRUE)
          /\ TripletNew(FALSE, FALSE, dir) = Discrepancy(dir)
          /\ TripletNew(TRUE, TRUE, dir) = NoDevicesFound
    /\ \A b, c \in BOOLEAN :
          /\ TripletNew(b, c, FALSE) \in Triplets
          /\ TripletNew(b, c, TRUE) \in Triplets
          /\ (TripletNew(b, c, FALSE) # TripletNew(b, c, TRUE)) <=> (~b /\ ~c)
    /\ \A k \in 1 .. Len(ops) :
          (ops[k].op = "triplet" /\ ~Failed(k)) =>
             [tag |-> ops[k].res, bit |-> ops[k].bit]
                \in {TripletNew(b, c, ops[k].dir) : b, c \in BOOLEAN}

\* one pass has got all four kinds of answer: a discrepancy under a direction
\* bit of 1, both all-match values, and no device
C12_Witness ==
    /\ \E k \in 1 .. Len(ops) :
          ops[k].res = "Discrepancy" /\ ops[k].bit /\ ops[k].dir
    /\ \E k \in 1 .. Len(ops) : ops[k].res = "AllMatch" /\ ops[k].bit
    /\ \E k \in 1 .. Len(ops) : ops[k].res = "AllMatch" /\ ~ops[k].bit
    /\ Len(ops) >= 1 /\ Last(ops).res = "NoDevicesFound" /\ Last(ops).dir

\* the rule of the direction bit computed from the state the previous pass
\* returned (prev: the stored Option<SearchState>), with L its last
\* discrepancy index
C13_StaticDirBit(prev, index) ==
    IF ~prev.some THEN FALSE
    ELSE LET L == last_discrepancy_index(prev.st)
         IN IF index < L THEN addr_bit(prev.st, index)
            ELSE IF index = L THEN TRUE
            ELSE FALSE

\* C13: in every pass the direction bit of every slot, which the code
\* computes from the state it is changing during the pass, is the direction
\* bit of the rule computed from the state the previous pass returned: false
\* on the first pass, otherwise the previous identifier's bit below L, true
\* at L, false above L. (While a pass is at its triplets the stored state is
\* still the one the previous pass returned.)
C13_DirectionFromPreviousState ==
    pc = "triplet" =>
       /\ DirBit(first_time, search_state, i) = C13_StaticDirBit(state, i)
       /\ \A k \in 1 .. Len(ops) :
             ops[k].op = "triplet" =>
                ops[k].dir = C13_StaticDirBit(state, ops[k].arg)

\* a later pass, above the slot it was sent to, after the pass has changed
\* the last discrepancy index of the state it is changing
C13_Witness ==
    /\ pc = "triplet" /\ state.some
    /\ i > last_discrepancy_index(state.st)
    /\ i > last_discrepancy_index(search_state)
    /\ last_discrepancy_index(search_state) > last_discrepancy_index(state.st)
    /\ \E k \in 1 .. Len(ops) : ops[k].op = "triplet" /\ ops[k].dir

\* the search state a step of a pass leaves: the local of search(), or at
\* the last slot the state that next() stores
C14_After ==
    IF pc' = "idle" THEN state'.st ELSE search_state'

\* C14: when a slot i is classified as a discrepancy, with L the last
\* discrepancy index of the state the previous pass returned, the mark at i
\* is set on the first pass or when i > L, cleared on a later pass when
\* i = L, and the bitmap is unchanged on a later pass when i < L; bit i of the
\* address becomes the bit the discrepancy carries (the direction bit), and
\* no other mark and no other address bit changes. When the slot is
\* classified as all-match only bit i of the address changes, to the bit
\* matched, and the bitmap is unchanged.
C14_FoldFrame ==
    [][ (pc = "triplet" /\ Len(ops') = Len(ops) + 1
            /\ Last(ops').res \in {"Discrepancy", "AllMatch"}) =>
        LET r == Last(ops')
            L == last_discrepancy_index(state.st)
            marks == search_state.discrepancies
        IN /\ r.arg = i
           /\ C14_After.address = set_bit(search_state.address, i, r.bit)
           /\ r.res = "AllMatch" => C14_After.discrepancies = marks
           /\ r.res = "Discrepancy" =>
                 /\ r.bit = r.dir
                 /\ C14_After.discrepancies =
                       IF ~state.some \/ i > L THEN marks \cup {i}
                       ELSE IF i = L THEN marks \ {i}
                       ELSE marks ]_vars

\* a later pass has cleared the mark at the slot it was sent to and has set
\* a new mark above it
C14_Witness ==
    /\ pc = "triplet" /\ state.some
    /\ last_discrepancy_index(state.st) \notin search_state.discrepancies
    /\ \E k \in search_state.discrepancies :
          /\ k > last_discrepancy_index(state.st)
          /\ k \notin state.st.discrepancies
          /\ ops[k + 3].res = "Discrepancy"

\* C15: when the triplet of a slot i reports that no device answered, it is
\* the last primitive of its pass (no triplet for a slot above i), no
\* checksum is checked (the pass does not reach the check, so it cannot stop
\* in its panic) and no identifier is returned: the advance returns the end
\* of the sequence and no error, the sequence is exhausted and the stored
\* state is dropped; every later advance returns the end of the sequence.
C15_NoDevicesEndsPass ==
    /\ \A k \in 1 .. Len(ops) :
          ops[k].res = "NoDevicesFound" =>
             /\ k = Len(ops)
             /\ ops[k].op = "triplet" /\ ~Failed(k)
             /\ pc = "idle" /\ finished /\ state = NoneState
             /\ (Unsaturated => Last(returned) = ItemNone)
    /\ \A j, k \in 1 .. Len(returned) :
          j < k /\ returned[j] = ItemNone => returned[k] = ItemNone

\* the devices have left in the middle of the second pass
C15_Witness ==
    /\ Len(ops) > 10 /\ Len(ops) < AddressBits
    /\ Last(ops).res = "NoDevicesFound"
    /\ Len(returned) = 2
    /\ returned[1].kind = "Ok"
    /\ returned[2] = ItemNone

\* C16: the stored Search State is absent until the first advance has
\* returned an identifier; after an advance that returned an identifier it
\* is present and its address is that identifier, and it is exactly the
\* state the pass built at its last slot; after an advance that returned the
\* end of the sequence or an error it is absent; and whenever the finished
\* flag is set it is absent.
C16_StoredStateLifecycle ==
    /\ [](/\ returned = <<>> => state = NoneState
          /\ finished => state = NoneState
          /\ (pc = "idle" /\ Unsaturated /\ returned # <<>>) =>
                IF Last(returned).kind = "Ok"
                THEN /\ state.some /\ ~finished
                     /\ state.st.address = Last(returned).address
                ELSE state = NoneState /\ finished)
    /\ [][ /\ (pc = "triplet" /\ pc' = "idle" /\ ~finished') =>
                 /\ i = LastBit
                 /\ state' = SomeState(Fold(first_time, search_state, i,
                                 [tag |-> Last(ops').res, bit |-> Last(ops').bit]))
                 /\ returned' = Record(ItemOk(state'.st.address))
           /\ (pc' # "idle" \/ pc # "triplet") /\ ~finished' =>
                 state' = state ]_vars

\* a stored state replaced by the second pass and dropped by the third advance
C16_Witness ==
    /\ pc = "idle" /\ finished /\ state = NoneState
    /\ Len(returned) = 3
    /\ returned[1].kind = "Ok" /\ returned[2].kind = "Ok"
    /\ returned[3].kind = "Err"

\* the identifiers returned so far
Yielded == {returned[k].address : k \in {j \in 1 .. Len(returned) :
                                            returned[j].kind = "Ok"}}

\* C17: on a fixed bus, after every pass that returns an identifier the
\* discrepancy bitmap of the new Search State is empty exactly when every
\* device of the bus has been returned, by this pass or an earlier one; so
\* the enumeration ends before the bus is touched exactly when no device is
\* left to find.
C17_EmptyBitmapIffAllFound ==
    (FixedBus /\ pc = "idle" /\ Unsaturated /\ returned # <<>>
        /\ Last(returned).kind = "Ok") =>
       /\ state.some
       /\ state.st.discrepancies = {} <=> devices \subseteq Yielded
       /\ Yielded \subseteq devices

\* the second of three devices has been returned and a mark is left
C17_Witness ==
    /\ FixedBus /\ pc = "idle" /\ Cardinality(devices) = 3
    /\ Len(returned) = 2
    /\ returned[1].kind = "Ok" /\ returned[2].kind = "Ok"
    /\ state.some /\ state.st.discrepancies # {}
    /\ ~(devices \subseteq Yielded)

\* last_discrepancy_index is the highest marked position, and 0 for an empty
\* bitmap
C18_HighestMark ==
    /\ \A S \in SUBSET {0, 1, 8, 62, LastBit} :
          last_discrepancy_index([address |-> {}, discrepancies |-> S]) =
             IF S = {} THEN 0 ELSE Max(S)
    /\ last_discrepancy_index(search_state) =
          IF search_state.discrepancies = {} THEN 0
          ELSE Max(search_state.discrepancies)

\* an advance from a stored state whose only mark is at bit 0 starts a pass
C18_MarkAtZeroNotExhausted ==
    (pc = "idle" /\ ~finished /\ state.some /\ state.st.discrepancies = {0}
        /\ devices' = devices) =>
       pc' = "reset" /\ ~finished' /\ returned' = returned

\* a bitmap that is empty in the middle of a later pass: the slots above are
\* neither forced to 1 nor replayed
C18_EmptyMidPass ==
    (pc = "triplet" /\ state.some /\ search_state.discrepancies = {}) =>
       /\ i > last_discrepancy_index(search_state)
       /\ ~DirBit(first_time, search_state, i)
       /\ \A k \in 1 .. Len(ops) :
             (ops[k].op = "triplet"
                 /\ ops[k].arg > last_discrepancy_index(state.st)) =>
                ~ops[k].dir

\* a pass that started from a state whose only mark is at bit 0 is past slot 0
C18_PastSlotZero ==
    pc = "triplet" /\ state.some /\ state.st.discrepancies = {0} /\ i >= 1

AgreeBelow(a, d, index) == \A j \in 0 .. index - 1 : (j \in a) <=> (j \in d)

\* C19: on a fixed bus, in the Search State stored by every pass that
\* returned an identifier, every marked position has address bit 0, and for
\* every marked position the bus holds a device that has the bits of the
\* returned identifier below it and bit 1 at it: the branch the next pass is
\* sent into at the last marked position is not empty.
C19_MarksHaveUntakenBranch ==
    (FixedBus /\ pc = "idle" /\ state.some) =>
       /\ state.st.discrepancies \cap state.st.address = {}
       /\ state.st.address \in devices
       /\ \A m \in state.st.discrepancies :
             \E d \in devices : AgreeBelow(state.st.address, d, m) /\ m \in d

\* a stored state with two marks on a bus of three devices
C19_Witness ==
    /\ FixedBus /\ pc = "idle" /\ state.some
    /\ Cardinality(devices) = 3
    /\ Cardinality(state.st.discrepancies) = 2

\* the bits send_command has to write after its reset, in order (numbered
\* from 0): the MATCH_ROM code and bits 0 .. 63 of the address, or the
\* SKIP_ROM code; then the command; every code from its lowest bit
C20_RomBits == IF call.some THEN BitsPerByte + AddressBits ELSE BitsPerByte
C20_Bit(n) ==
    IF n < BitsPerByte
    THEN BitOf(IF call.some THEN MATCH_ROM ELSE SKIP_ROM, n)
    ELSE IF n < C20_RomBits
    THEN (IF n - BitsPerByte \in call.address THEN 1 ELSE 0)
    ELSE BitOf(call.command, n - C20_RomBits)

\* C20: send_command calls one reset; then writes the MATCH_ROM byte and
\* the 8 bytes of the address in little-endian order when an address is
\* given, the SKIP_ROM byte otherwise; then the command byte; every byte
\* from its least significant bit. A primitive that fails is the last one
\* called and its error is the result; the call returns Ok only after the
\* last bit of the command; the presence result of the reset changes nothing.
C20_CommandSequence ==
    call.at # "none" =>
       /\ Len(ops) <= 1 + C20_RomBits + BitsPerByte
       /\ ops = <<>> <=> call.at = "reset"
       /\ \A k \in 1 .. Len(ops) :
             /\ IF k = 1 THEN ops[k].op = "reset"
                ELSE ops[k].op = "write_bit" /\ ops[k].arg = C20_Bit(k - 2)
             /\ Failed(k) =>
                   /\ k = Len(ops)
                   /\ call.at = "returned" /\ call.result = ops[k].err
       /\ call.at = "returned" =>
             /\ call.result # ""
             /\ call.result = "Ok" <=>
                   /\ Len(ops) = 1 + C20_RomBits + BitsPerByte
                   /\ \A k \in 1 .. Len(ops) : ~Failed(k)

\* a command sent to a device by its address after a reset without a
\* presence pulse: all 81 primitives, and Ok
C20_Witness ==
    /\ call.at = "returned" /\ call.result = "Ok" /\ call.some
    /\ call.address # {}
    /\ ops[1].res = "no_presence"
    /\ Len(ops) = 1 + BitsPerByte * (AddressBytes + 2)

====
